---- MODULE Spec2Model ----
(***************************************************************************)
(* A model of the XQAOA cost evaluator of src/mwe: Graph.py (Node, Edge,   *)
(* Graph) and XQAOA.py (XQAOA).                                            *)
(*                                                                         *)
(* Python values are modelled as follows.                                  *)
(*   str    a sequence of one-character strings, so that f'{i}',           *)
(*          f'{i}#{j}', split('#') and int() are computed, not assumed.    *)
(*   dict   a record [keys, val]: keys is the insertion order (the order   *)
(*          Python iterates a dict in), val the mapping.                   *)
(*   None   the empty set {}; a field that holds a value x is {x}.         *)
(*   float  angles lie on a grid on which every sine and cosine the        *)
(*          formulas take is -1, 0 or 1: a node angle (alpha, beta) is     *)
(*          stored as its multiple of pi/4 and an edge angle (gamma) as    *)
(*          its multiple of pi/2.  Terms and costs are stored in units of  *)
(*          1/4, which is exact on this grid (0.5 is 2, 1.0 is 4).         *)
(*   raise  an operation that can raise returns a record with ok = FALSE.  *)
(***************************************************************************)
EXTENDS Integers, Sequences, FiniteSets, TLC

VARIABLES
    input,       \* the arguments (n, edges) given to Graph(n, edges)
    built,       \* TRUE when Graph(n, edges) returned, FALSE when it raised
    graph,       \* the Graph object every evaluator is bound to
    evs,         \* the XQAOA objects: alphas, betas, gammas, edge_costs
    lastAngles,  \* history: the vector of each evaluator's last successful set_angles
    lastOp       \* history: the call that led to this state, and how it ended

vars == <<input, built, graph, evs, lastAngles, lastOp>>

(***************************************************************************)
(* Bounds of the model.                                                    *)
(***************************************************************************)
MaxNodes == 3       \* node counts 0..MaxNodes are enumerated in full
MaxEdges == 3       \* longest input edge list for those node counts
WideNodes == 11     \* one node count with two-digit node identities
MaxWideEdges == 2   \* longest input edge list for WideNodes
NumEvals == 2       \* evaluators bound to one graph in SpecShared

(***************************************************************************)
(* Python values.                                                          *)
(***************************************************************************)
None == {}
Some(x) == {x}
Get(o) == CHOOSE x \in o : TRUE

\* F applied to the value x: a local name for a value used more than once.
Let(x, F(_)) == F(x)

EmptyDict == [keys |-> <<>>, val |-> <<>>]
HasKey(d, k) == k \in DOMAIN d.val
\* d[k] = v: a new key goes to the end, an existing key keeps its place.
DictSet(d, k, v) ==
    IF HasKey(d, k)
    THEN [d EXCEPT !.val[k] = v]
    ELSE [keys |-> Append(d.keys, k), val |-> (k :> v) @@ d.val]
\* {k: v for k in keys}
DictOver(keys, v) ==
    [keys |-> keys, val |-> [k \in {keys[i] : i \in 1..Len(keys)} |-> v]]
KeySet(d) == {d.keys[i] : i \in 1..Len(d.keys)}

DigitChars == <<"0", "1", "2", "3", "4", "5", "6", "7", "8", "9">>
DigitVal(c) == CHOOSE d \in 0..9 : DigitChars[d + 1] = c

\* f'{i}' for a non-negative int
RECURSIVE Str(_)
Str(i) ==
    IF i < 10 THEN <<DigitChars[i + 1]>>
    ELSE Str(i \div 10) \o <<DigitChars[(i % 10) + 1]>>

\* int(s) for a string of digits
RECURSIVE ToInt(_)
ToInt(s) ==
    IF Len(s) = 1 THEN DigitVal(s[1])
    ELSE 10 * ToInt(SubSeq(s, 1, Len(s) - 1)) + DigitVal(s[Len(s)])

\* f'{i}#{j}'
EdgeIdStr(i, j) == Str(i) \o <<"#">> \o Str(j)

\* a, b = eid.split('#') for a string holding one '#'
Split(eid) ==
    LET p == CHOOSE k \in 1..Len(eid) : eid[k] = "#"
    IN  <<SubSeq(eid, 1, p - 1), SubSeq(eid, p + 1, Len(eid))>>

(***************************************************************************)
(* Graph.py                                                                *)
(***************************************************************************)
\* Node(node_id)
Node(node_id) == [nid |-> node_id, neighbours |-> None]

\* Edge(edge_id, u, v); u and v refer to the Node objects of the graph by key.
Edge(edge_id, u, v) ==
    [eid |-> edge_id, u |-> u, v |-> v, in_triangle |-> None, triangle_nodes |-> None]

\* Graph.construct_nodes
RECURSIVE construct_nodes_loop(_, _, _)
construct_nodes_loop(nodes, i, n) ==
    IF i >= n THEN nodes
    ELSE construct_nodes_loop(DictSet(nodes, Str(i), Node(Str(i))), i + 1, n)

construct_nodes(num_nodes) == construct_nodes_loop(EmptyDict, 0, num_nodes)

\* tuple(sorted(graph_edge))
SortedPair(p) == IF p[1] <= p[2] THEN <<p[1], p[2]>> ELSE <<p[2], p[1]>>

\* s < t for two Python strings of digits
RECURSIVE StrLess(_, _)
StrLess(s, t) ==
    IF Len(t) = 0 THEN FALSE
    ELSE IF Len(s) = 0 THEN TRUE
    ELSE IF s[1] # t[1] THEN DigitVal(s[1]) < DigitVal(t[1])
    ELSE StrLess(Tail(s), Tail(t))

\* EdgeBefore as it would be if the edges were sorted by their ids as strings
EdgeBeforeAsStrings(x, y) ==
    StrLess(Str(x[1]), Str(y[1])) \/ (x[1] = y[1] /\ StrLess(Str(x[2]), Str(y[2])))

\* the sort key lambda x: (x[0], x[1]), as the order it gives
EdgeBefore(x, y) == x[1] < y[1] \/ (x[1] = y[1] /\ x[2] < y[2])

\* the loop of Graph.construct_edges over the sorted list, from position k
RECURSIVE construct_edges_loop(_, _, _, _)
construct_edges_loop(nodes, edges, sorted, k) ==
    IF k > Len(sorted) THEN [ok |-> TRUE, edges |-> edges]
    ELSE LET i == sorted[k][1]
             j == sorted[k][2]
         IN  IF ~HasKey(nodes, Str(i)) \/ ~HasKey(nodes, Str(j))
             THEN [ok |-> FALSE, edges |-> edges]      \* KeyError
             ELSE LET e == IF i < j
                           THEN Edge(EdgeIdStr(i, j), Str(i), Str(j))
                           ELSE Edge(EdgeIdStr(j, i), Str(j), Str(i))
                  IN  construct_edges_loop(nodes, DictSet(edges, e.eid, e), sorted, k + 1)

\* Graph.construct_edges
construct_edges(nodes, edges_list) ==
    LET graph_edges == [k \in 1..Len(edges_list) |-> SortedPair(edges_list[k])]
        sorted == SortSeq(graph_edges, EdgeBefore)
    IN  construct_edges_loop(nodes, EmptyDict, sorted, 1)

\* ScanNeighbours as it would be without the elif branch
ScanNeighboursFirstOnly(edge_keys, node_id) ==
    {Split(eid)[2] : eid \in {k \in edge_keys : node_id = Split(k)[1]}}

\* The scan of Graph.neighbours over the edge keys.
ScanNeighbours(edge_keys, node_id) ==
    {IF node_id = Split(eid)[1] THEN Split(eid)[2] ELSE Split(eid)[1] :
        eid \in {k \in edge_keys : node_id = Split(k)[1] \/ node_id = Split(k)[2]}}

\* neighbours as it would be if it returned the set the node holds, once set
neighboursStored(g, node_id) ==
    IF g.nodes.val[node_id].neighbours = None
    THEN [shared |-> FALSE, val |-> ScanNeighbours(KeySet(g.edges), node_id)]
    ELSE [shared |-> TRUE, val |-> Get(g.nodes.val[node_id].neighbours)]

\* Graph.neighbours: the set it returns is a new object on every call
\* (shared = FALSE); a caller that changes it changes nothing of the graph.
neighbours(g, node_id) ==
    [shared |-> FALSE, val |-> ScanNeighbours(KeySet(g.edges), node_id)]

\* Graph.triangle_nodes
triangle_nodes(g, edge_id) ==
    LET u_id == Split(edge_id)[1]
        v_id == Split(edge_id)[2]
    IN  neighbours(g, u_id).val \cap neighbours(g, v_id).val

\* Graph.in_triangle
in_triangle(g, edge_id) == Cardinality(triangle_nodes(g, edge_id)) # 0

\* The two loops that end Graph.__init__.
RECURSIVE set_neighbours_loop(_, _)
set_neighbours_loop(g, k) ==
    IF k > Len(g.nodes.keys) THEN g
    ELSE LET nid == g.nodes.keys[k]
         IN  set_neighbours_loop(
                 [g EXCEPT !.nodes.val[nid].neighbours = Some(neighbours(g, nid).val)],
                 k + 1)

RECURSIVE set_triangles_loop(_, _)
set_triangles_loop(g, k) ==
    IF k > Len(g.edges.keys) THEN g
    ELSE LET eid == g.edges.keys[k]
             tn == triangle_nodes(g, eid)
         IN  set_triangles_loop(
                 [g EXCEPT !.edges.val[eid].triangle_nodes = Some(tn),
                           !.edges.val[eid].in_triangle = Some(Cardinality(tn) # 0)],
                 k + 1)

\* Graph.__init__
NewGraph(n, edges) ==
    LET nodes == construct_nodes(n)
        ce == construct_edges(nodes, edges)
        g0 == [num_nodes |-> n, num_edges |-> Len(edges),
               nodes |-> nodes, edges |-> ce.edges]
    IN  IF ~ce.ok THEN [ok |-> FALSE, g |-> g0]
        ELSE [ok |-> TRUE, g |-> set_triangles_loop(set_neighbours_loop(g0, 1), 1)]

(***************************************************************************)
(* Arithmetic on the grid.                                                 *)
(***************************************************************************)
Half == 2    \* the float 0.5, in units of 1/4
Unit == 2 * Half
Zero == 0    \* the float 0.0: an angle, a term or a cost

\* numpy.cos and numpy.sin of k quarter turns (k * pi/2)
cos(k) == CASE k % 4 = 0 -> 1 [] k % 4 = 2 -> 0 - 1 [] OTHER -> 0
sin(k) == CASE k % 4 = 1 -> 1 [] k % 4 = 3 -> 0 - 1 [] OTHER -> 0

\* The product of fn[x] over x in S; the empty product is 1.
RECURSIVE ProdOver(_, _)
ProdOver(fn, S) ==
    IF S = {} THEN 1
    ELSE LET x == CHOOSE y \in S : TRUE
         IN  fn[x] * ProdOver(fn, S \ {x})

\* sum(d.values())
RECURSIVE SumValues(_, _)
SumValues(d, k) ==
    IF k > Len(d.keys) THEN Zero ELSE d.val[d.keys[k]] + SumValues(d, k + 1)

(***************************************************************************)
(* XQAOA.py                                                                *)
(***************************************************************************)
\* XQAOA.__init__
XQAOA(g) ==
    [alphas |-> DictOver(g.nodes.keys, Zero),
     betas |-> DictOver(g.nodes.keys, Zero),
     gammas |-> DictOver(g.edges.keys, Zero),
     edge_costs |-> DictOver(g.edges.keys, Zero)]

\* for i, key in enumerate(d): d[key] = block[i]
AssignBlock(d, block) ==
    [d EXCEPT !.val = [key \in DOMAIN d.val |->
                          block[CHOOSE i \in 1..Len(d.keys) : d.keys[i] = key]]]

\* set_angles as it would be with the alpha loop ahead of the assert
set_angles_assert_late(g, ev, angles) ==
    IF Len(angles) # 2 * g.num_nodes + g.num_edges
    THEN [ok |-> FALSE,
          ev |-> IF Len(angles) >= g.num_nodes
                 THEN [ev EXCEPT !.alphas = AssignBlock(@, SubSeq(angles, 1, g.num_nodes))]
                 ELSE ev]
    ELSE [ok |-> TRUE,
          ev |-> [ev EXCEPT
                    !.alphas = AssignBlock(@, SubSeq(angles, 1, g.num_nodes)),
                    !.betas = AssignBlock(@, SubSeq(angles, g.num_nodes + 1, 2 * g.num_nodes)),
                    !.gammas = AssignBlock(@, SubSeq(angles, 2 * g.num_nodes + 1, Len(angles)))]]

\* XQAOA.set_angles: the assert comes first, then the three loops.
set_angles(g, ev, angles) ==
    IF Len(angles) # 2 * g.num_nodes + g.num_edges
    THEN [ok |-> FALSE, ev |-> ev]                              \* AssertionError
    ELSE LET alphas == SubSeq(angles, 1, g.num_nodes)
             betas == SubSeq(angles, g.num_nodes + 1, 2 * g.num_nodes)
             gammas == SubSeq(angles, 2 * g.num_nodes + 1, Len(angles))
         IN  [ok |-> TRUE,
              ev |-> [ev EXCEPT !.alphas = AssignBlock(@, alphas),
                                !.betas = AssignBlock(@, betas),
                                !.gammas = AssignBlock(@, gammas)]]

\* get_edge_id as it would be without the comparison of its arguments
get_edge_id_unordered(u_id, v_id) ==
    [ok |-> ToInt(u_id) # ToInt(v_id), val |-> EdgeIdStr(ToInt(u_id), ToInt(v_id))]

\* XQAOA.get_edge_id
get_edge_id(u_id, v_id) ==
    LET u == ToInt(u_id)
        v == ToInt(v_id)
    IN  [ok |-> u # v,                                          \* the assert
         val |-> IF u < v THEN EdgeIdStr(u, v) ELSE EdgeIdStr(v, u)]

\* x = self.graph.neighbours(a); x.remove(b).  remove raises KeyError when b
\* is absent; it changes the graph only if the set is one the graph holds.
OtherNeighbours(g, a, b) ==
    Let(neighbours(g, a), LAMBDA r :
        [ok |-> b \in r.val,
         val |-> r.val \ {b},
         g |-> IF r.shared /\ b \in r.val
               THEN [g EXCEPT !.nodes.val[a].neighbours = Some(r.val \ {b})]
               ELSE g])

\* The edge ids [get_edge_id(a, w) for w in ws]: ok when no assert fails.
EdgeIdsTo(a, ws) ==
    [ok |-> \A w \in ws : get_edge_id(a, w).ok,
     ids |-> {get_edge_id(a, w).val : w \in ws}]

\* The product of cos(self.gammas[id]) over ids; a missing key is a KeyError.
CosGammas(ev, ids) ==
    IF \A id \in ids : HasKey(ev.gammas, id)
    THEN [ok |-> TRUE, val |-> ProdOver([id \in ids |-> cos(ev.gammas.val[id])], ids)]
    ELSE [ok |-> FALSE, val |-> 0]

\* What a term returns when it raises, leaving the graph as g.
Raised(g) == [ok |-> FALSE, val |-> 0, g |-> g]

\* XQAOA.term1
term1(g, ev, edge_id) ==
    LET u_id == Split(edge_id)[1]
        v_id == Split(edge_id)[2]
        alpha_u == ev.alphas.val[u_id]
        alpha_v == ev.alphas.val[v_id]
        beta_u == ev.betas.val[u_id]
        beta_v == ev.betas.val[v_id]
        gamma_uv == ev.gammas.val[edge_id]
    IN  Let(OtherNeighbours(g, v_id, u_id), LAMBDA e :
        IF ~e.ok THEN Raised(g) ELSE
        Let(OtherNeighbours(e.g, u_id, v_id), LAMBDA d :
        IF ~d.ok THEN Raised(e.g) ELSE
        Let(EdgeIdsTo(v_id, e.val), LAMBDA e_ids :
        Let(EdgeIdsTo(u_id, d.val), LAMBDA d_ids :
        IF ~(e_ids.ok /\ d_ids.ok) THEN Raised(d.g) ELSE
        Let(CosGammas(ev, e_ids.ids), LAMBDA e_cos :
        Let(CosGammas(ev, d_ids.ids), LAMBDA d_cos :
        IF ~(e_cos.ok /\ d_cos.ok) THEN Raised(d.g) ELSE
        LET e_terms == cos(beta_u) * sin(beta_v) * e_cos.val
            d_terms == sin(beta_u) * cos(beta_v) * d_cos.val
        IN  [ok |-> TRUE, g |-> d.g,
             val |-> Unit * cos(alpha_u) * cos(alpha_v) * sin(gamma_uv)
                          * (e_terms + d_terms)]))))))

\* The product over f in F of cos(gamma_uf + sign * gamma_vf).
TriangleTerms(ev, u_id, v_id, F, sign) ==
    ProdOver([f \in F |-> cos(ev.gammas.val[get_edge_id(u_id, f).val]
                              + sign * ev.gammas.val[get_edge_id(v_id, f).val])], F)

\* What term2 and term3 compute alike: F, the two lists merged into E, the
\* product of cos over E (without its leading factor), the products over F.
TriangleParts(g, ev, edge_id) ==
    LET u_id == Split(edge_id)[1]
        v_id == Split(edge_id)[2]
    IN  Let(triangle_nodes(g, edge_id), LAMBDA F :
        Let(OtherNeighbours(g, v_id, u_id), LAMBDA e :
        IF ~e.ok THEN Raised(g) ELSE
        Let(EdgeIdsTo(v_id, e.val \ F), LAMBDA e_edges_non_triangle :
        IF ~e_edges_non_triangle.ok THEN Raised(e.g) ELSE
        Let(OtherNeighbours(e.g, u_id, v_id), LAMBDA d :
        IF ~d.ok THEN Raised(e.g) ELSE
        Let(EdgeIdsTo(u_id, d.val \ F), LAMBDA d_edges_non_triangle :
        IF ~d_edges_non_triangle.ok THEN Raised(d.g) ELSE
        Let(CosGammas(ev, e_edges_non_triangle.ids \cup d_edges_non_triangle.ids),
            LAMBDA E_cos :
        IF ~E_cos.ok THEN Raised(d.g) ELSE
        Let(EdgeIdsTo(u_id, F), LAMBDA uf :
        Let(EdgeIdsTo(v_id, F), LAMBDA vf :
        IF ~(uf.ok /\ vf.ok /\ \A id \in uf.ids \cup vf.ids : HasKey(ev.gammas, id))
        THEN Raised(d.g) ELSE
        [ok |-> TRUE, g |-> d.g,
         e_list |-> e_edges_non_triangle.ids,
         d_list |-> d_edges_non_triangle.ids,
         E_cos |-> E_cos.val,
         triangle_1_terms |-> TriangleTerms(ev, u_id, v_id, F, 1),
         triangle_2_terms |-> TriangleTerms(ev, u_id, v_id, F, 0 - 1)]))))))))

\* XQAOA.term2
term2(g, ev, edge_id) ==
    LET alpha_u == ev.alphas.val[Split(edge_id)[1]]
        alpha_v == ev.alphas.val[Split(edge_id)[2]]
    IN  Let(TriangleParts(g, ev, edge_id), LAMBDA p :
        IF ~p.ok THEN Raised(p.g) ELSE
        [ok |-> TRUE, g |-> p.g,
         val |-> (0 - Half) * sin(alpha_u) * sin(alpha_v) * p.E_cos
                     * (p.triangle_1_terms + p.triangle_2_terms)])

\* term3 as it would be with the sum of the triangle terms, as in term2
term3_sum(g, ev, edge_id) ==
    LET alpha_u == ev.alphas.val[Split(edge_id)[1]]
        alpha_v == ev.alphas.val[Split(edge_id)[2]]
        beta_u == ev.betas.val[Split(edge_id)[1]]
        beta_v == ev.betas.val[Split(edge_id)[2]]
    IN  Let(TriangleParts(g, ev, edge_id), LAMBDA p :
        IF ~p.ok THEN Raised(p.g) ELSE
        [ok |-> TRUE, g |-> p.g,
         val |-> Half * cos(alpha_u) * sin(beta_u) * cos(alpha_v) * sin(beta_v)
                     * p.E_cos * (p.triangle_1_terms + p.triangle_2_terms)])

\* XQAOA.term3
term3(g, ev, edge_id) ==
    LET alpha_u == ev.alphas.val[Split(edge_id)[1]]
        alpha_v == ev.alphas.val[Split(edge_id)[2]]
        beta_u == ev.betas.val[Split(edge_id)[1]]
        beta_v == ev.betas.val[Split(edge_id)[2]]
    IN  Let(TriangleParts(g, ev, edge_id), LAMBDA p :
        IF ~p.ok THEN Raised(p.g) ELSE
        [ok |-> TRUE, g |-> p.g,
         val |-> Half * cos(alpha_u) * sin(beta_u) * cos(alpha_v) * sin(beta_v)
                     * p.E_cos * (p.triangle_1_terms - p.triangle_2_terms)])

\* edge_cost = 0.5 + 0.5 * (term1_cost + term2_cost + term3_cost)
edge_cost(term1_cost, term2_cost, term3_cost) ==
    Half + (Half * (term1_cost + term2_cost + term3_cost)) \div Unit

\* store_cost as it would be if it added to the cost the edge had
store_cost_added(ev, edge_id, cost) ==
    [ev EXCEPT !.edge_costs.val[edge_id] = @ + cost]

\* self.edge_costs[edge_id] = edge_cost
store_cost(ev, edge_id, cost) ==
    [ev EXCEPT !.edge_costs.val[edge_id] = cost]

\* What the loop body returns when a term raises.
Stopped(g, ev, call3) == [ok |-> FALSE, g |-> g, ev |-> ev, call3 |-> call3]

\* The body of the loop of XQAOA.total_cost for one edge.  always_term3 is
\* FALSE in the program; TRUE evaluates term3 whatever in_triangle says.
EdgeStep(g, ev, edge_id, always_term3) ==
    Let(in_triangle(g, edge_id) \/ always_term3, LAMBDA call3 :
    Let(term1(g, ev, edge_id), LAMBDA t1 :
    IF ~t1.ok THEN Stopped(t1.g, ev, FALSE) ELSE
    Let(term2(t1.g, ev, edge_id), LAMBDA t2 :
    IF ~t2.ok THEN Stopped(t2.g, ev, FALSE) ELSE
    Let(IF call3 THEN term3(t2.g, ev, edge_id)
        ELSE [ok |-> TRUE, val |-> Zero, g |-> t2.g], LAMBDA t3 :
    IF ~t3.ok THEN Stopped(t3.g, ev, call3) ELSE
    [ok |-> TRUE, g |-> t3.g, call3 |-> call3,
     ev |-> store_cost(ev, edge_id, edge_cost(t1.val, t2.val, t3.val))]))))

\* XQAOA.total_cost from the k-th key of edge_costs on; calls is the set of
\* edges term3 was called for.  An exception ends the loop where it is raised.
RECURSIVE total_cost_loop(_, _, _, _, _)
total_cost_loop(g, ev, k, calls, always_term3) ==
    IF k > Len(ev.edge_costs.keys)
    THEN [ok |-> TRUE, g |-> g, ev |-> ev, calls |-> calls,
          ret |-> SumValues(ev.edge_costs, 1)]
    ELSE Let(EdgeStep(g, ev, ev.edge_costs.keys[k], always_term3), LAMBDA s :
         LET calls2 == IF s.call3 THEN calls \cup {ev.edge_costs.keys[k]} ELSE calls
         IN  IF ~s.ok
             THEN [ok |-> FALSE, g |-> s.g, ev |-> s.ev, calls |-> calls2, ret |-> Zero]
             ELSE total_cost_loop(s.g, s.ev, k + 1, calls2, always_term3))

\* XQAOA.total_cost
total_cost(g, ev) == total_cost_loop(g, ev, 1, {}, FALSE)

(***************************************************************************)
(* The inputs of the model.                                                *)
(***************************************************************************)
SeqsUpTo(S, n) == UNION {[1..k -> S] : k \in 0..n}

\* Node counts 0..MaxNodes with every edge list of up to MaxEdges pairs over
\* 0..n (the endpoint n is out of range, a pair (i, i) is a self-loop), and
\* WideNodes nodes with the edge lists over three of its nodes.
WideEndpoints == {1, 2, WideNodes - 1}
Inputs ==
    {[n |-> n, edges |-> es] :
        n \in 0..MaxNodes, es \in SeqsUpTo((0..MaxNodes) \X (0..MaxNodes), MaxEdges)}
    \cup
    {[n |-> WideNodes, edges |-> es] :
        es \in SeqsUpTo(WideEndpoints \X WideEndpoints, MaxWideEdges)}
ValidInputs ==
    {i \in Inputs : \A k \in 1..Len(i.edges) :
        i.edges[k][1] <= i.n /\ i.edges[k][2] <= i.n}
\* The inputs of the specification with several evaluators.
SharedInputs == {i \in ValidInputs : i.n = MaxNodes /\ Len(i.edges) = MaxEdges}

\* What the state keeps of (n, edges): the node count, the length of the
\* list and the set of unordered pairs in it, each as (min, max).
Summary(i) ==
    [n |-> i.n, count |-> Len(i.edges),
     pairs |-> {IF i.edges[k][1] <= i.edges[k][2]
                THEN <<i.edges[k][1], i.edges[k][2]>>
                ELSE <<i.edges[k][2], i.edges[k][1]>> : k \in 1..Len(i.edges)}]

\* The angle vectors given to set_angles on a graph of n nodes: the value at
\* place i of the alpha, beta and gamma block is a + sa*i, b + sb*i, c + sc*i.
Pattern(n, len, a, sa, b, sb, c, sc) ==
    [i \in 1..len |->
        IF i <= n THEN a + sa * (i - 1)
        ELSE IF i <= 2 * n THEN b + sb * (i - n - 1)
        ELSE c + sc * (i - 2 * n - 1)]
ZeroAngles(n, len) == Pattern(n, len, 0, 0, 0, 0, 0, 0)
\* no two places alike; term3 does not vanish on a triangle
DistinctAngles(n, len) == Pattern(n, len, 0, 2, 1, 2, 2 * n + 1, 2)
\* term1 does not vanish
Term1Angles(n, len) == Pattern(n, len, 0, 0, 0, 1, 1, 1)
\* term2 does not vanish
Term2Angles(n, len) == Pattern(n, len, 1, 0, 0, 0, 2, 0)
AngleVectors(n, len) ==
    {ZeroAngles(n, len), DistinctAngles(n, len), Term1Angles(n, len), Term2Angles(n, len)}
WrongLengths(need) == {l \in {need - 1, need + 1} : l >= 0}

NoOp == [op |-> "init", ev |-> 0, ok |-> TRUE, len |-> 0, ret |-> Zero, calls |-> {}]

\* Graph(n, edges), then one XQAOA(graph) for each evaluator.
InitWith(inputs, evaluators) ==
    /\ \E i \in inputs :
          /\ input = Summary(i)
          /\ built = NewGraph(i.n, i.edges).ok
          /\ graph = NewGraph(i.n, i.edges).g
    /\ evs = IF built THEN [e \in evaluators |-> XQAOA(graph)] ELSE <<>>
    /\ lastAngles = [e \in evaluators |-> None]
    /\ lastOp = NoOp

Init == InitWith(ValidInputs, {1})
InitShared == InitWith(SharedInputs, 1..NumEvals)

\* evs[e].set_angles(angles)
SetAngles(e, angles) ==
    LET r == set_angles(graph, evs[e], angles)
    IN  /\ built
        /\ evs' = [evs EXCEPT ![e] = r.ev]
        /\ lastAngles' = IF r.ok THEN [lastAngles EXCEPT ![e] = Some(angles)]
                         ELSE lastAngles
        /\ lastOp' = [op |-> "set_angles", ev |-> e, ok |-> r.ok,
                      len |-> Len(angles), ret |-> Zero, calls |-> {}]
        /\ UNCHANGED <<input, built, graph>>

\* evs[e].total_cost()
TotalCost(e) ==
    LET r == total_cost(graph, evs[e])
    IN  /\ built
        /\ graph' = r.g
        /\ evs' = [evs EXCEPT ![e] = r.ev]
        /\ lastOp' = [op |-> "total_cost", ev |-> e, ok |-> r.ok,
                      len |-> 0, ret |-> r.ret, calls |-> r.calls]
        /\ UNCHANGED <<input, built, lastAngles>>

Need == 2 * graph.num_nodes + graph.num_edges

Next ==
    \/ \E e \in DOMAIN evs : \E a \in AngleVectors(graph.num_nodes, Need) :
          SetAngles(e, a)
    \/ \E e \in DOMAIN evs : \E l \in WrongLengths(Need) :
          SetAngles(e, [i \in 1..l |-> i])
    \/ \E e \in DOMAIN evs : TotalCost(e)

Spec == Init /\ [][Next]_vars
SpecShared == InitShared /\ [][Next]_vars

(***************************************************************************)
(* What the claims are stated with.                                        *)
(***************************************************************************)
NodeKeys == KeySet(graph.nodes)
EdgeKeys == KeySet(graph.edges)
\* The key of the unordered pair p = (min, max).
PairKey(p) == EdgeIdStr(p[1], p[2])
\* The place of p among the pairs S in ascending numeric (min, max) order.
RankOf(p, S) ==
    1 + Cardinality({q \in S : q[1] < p[1] \/ (q[1] = p[1] /\ q[2] < p[2])})
\* The input edge list is simple: no pair (i, i).  (built: all in range.)
SimpleInput == built /\ \A p \in input.pairs : p[1] # p[2]
TriangleFree == built /\ \A k \in EdgeKeys : triangle_nodes(graph, k) = {}
AllZero(ev) ==
    /\ \A k \in DOMAIN ev.alphas.val : ev.alphas.val[k] = Zero /\ ev.betas.val[k] = Zero
    /\ \A k \in DOMAIN ev.gammas.val : ev.gammas.val[k] = Zero
\* The vector an evaluator's angles come from: zeros before any set_angles.
CurrentAngles(e) ==
    IF lastAngles[e] = None THEN ZeroAngles(graph.num_nodes, Need)
    ELSE Get(lastAngles[e])
\* total_cost() of a new evaluator on g given the vector a.
FreshRun(g, a) == total_cost(g, set_angles(g, XQAOA(g), a).ev)

(***************************************************************************)
(* C3.  For every input edge list of pairs of distinct nodes, lists that   *)
(* hold a pair more than once included, the graph holds one edge per       *)
(* distinct unordered pair, num_edges is the number of edge keys (and of   *)
(* gamma keys), and set_angles succeeds exactly on vectors of              *)
(* 2 * node_count + (number of distinct edges) angles.                     *)
(***************************************************************************)
C3_NumEdgesCountsDistinctEdges ==
    SimpleInput =>
        /\ EdgeKeys = {PairKey(p) : p \in input.pairs}
        /\ Len(graph.edges.keys) = Cardinality(input.pairs)
        /\ graph.num_edges = Len(graph.edges.keys)
        /\ \A e \in DOMAIN evs : Len(evs[e].gammas.keys) = graph.num_edges
        /\ lastOp.op = "set_angles" =>
              (lastOp.ok <=> lastOp.len = 2 * input.n + Cardinality(input.pairs))

(***************************************************************************)
(* C5.  In every graph that construction produces, both halves of every    *)
(* edge key a#b are node identities, a # b, and a < b as numbers.          *)
(***************************************************************************)
C5_EdgeKeysAreMinMaxOfDistinctNodes ==
    built =>
        \A k \in EdgeKeys :
            /\ Split(k)[1] \in NodeKeys
            /\ Split(k)[2] \in NodeKeys
            /\ Split(k)[1] # Split(k)[2]
            /\ ToInt(Split(k)[1]) < ToInt(Split(k)[2])

(***************************************************************************)
(* C7.  For every pair of nodes u, w of a constructed graph: w is in       *)
(* neighbours(u) iff u is in neighbours(w) iff the graph has the edge      *)
(* min(u,w)#max(u,w); the neighbour sets the nodes hold say the same.      *)
(***************************************************************************)
C7_NeighboursSymmetric ==
    built =>
        \A u \in 0..(input.n - 1) : \A w \in 0..(input.n - 1) :
            LET key == IF u <= w THEN EdgeIdStr(u, w) ELSE EdgeIdStr(w, u)
            IN  /\ Str(w) \in neighbours(graph, Str(u)).val <=> key \in EdgeKeys
                /\ Str(u) \in neighbours(graph, Str(w)).val <=> key \in EdgeKeys
                /\ Str(w) \in Get(graph.nodes.val[Str(u)].neighbours) <=> key \in EdgeKeys
                /\ Str(u) \in Get(graph.nodes.val[Str(w)].neighbours) <=> key \in EdgeKeys

\* A triangle on three nodes, and a graph with two-digit node identities.
C7_Witness ==
    /\ built
    /\ \/ input.n = 3 /\ input.pairs = {<<0, 1>>, <<0, 2>>, <<1, 2>>}
       \/ input.n = WideNodes /\ Cardinality(input.pairs) = 2 /\ SimpleInput
    /\ \E u \in NodeKeys : Cardinality(neighbours(graph, u).val) = 2

(***************************************************************************)
(* C1.  After a successful set_angles(a) on a graph of n nodes: for every  *)
(* i in 0..n-1, alphas[node i] = a[i] and betas[node i] = a[n+i]; for      *)
(* every edge, gammas[its key] = a[2n+k] where k is the place of the edge  *)
(* among the edges in ascending numeric (min, max) order.                  *)
(***************************************************************************)
C1_AnglesLandByNumericRank ==
    built =>
        \A e \in DOMAIN evs :
            lastAngles[e] # None =>
                LET a == Get(lastAngles[e])
                    n == input.n
                IN  /\ \A i \in 0..(n - 1) :
                          /\ HasKey(evs[e].alphas, Str(i))
                          /\ HasKey(evs[e].betas, Str(i))
                          /\ evs[e].alphas.val[Str(i)] = a[i + 1]
                          /\ evs[e].betas.val[Str(i)] = a[n + i + 1]
                    /\ \A p \in input.pairs :
                          /\ HasKey(evs[e].gammas, PairKey(p))
                          /\ evs[e].gammas.val[PairKey(p)] = a[2 * n + RankOf(p, input.pairs)]

\* set_angles has just given pairwise different angles to a graph whose edge
\* keys are ranked differently as numbers (1#2, 1#10) and as strings.
C1_Witness ==
    /\ lastOp.op = "set_angles" /\ lastOp.ok
    /\ input.n = WideNodes
    /\ input.pairs = {<<1, 2>>, <<1, WideNodes - 1>>}
    /\ lastAngles[lastOp.ev] = Some(DistinctAngles(graph.num_nodes, Need))

(***************************************************************************)
(* C2.  set_angles succeeds exactly when the vector has                    *)
(* 2*num_nodes + num_edges entries, and a call that fails leaves alphas,   *)
(* betas, gammas and edge_costs of every evaluator as they were, so that   *)
(* total_cost() returns after it what it would have returned before.       *)
(***************************************************************************)
C2_FailedSetAnglesChangesNothing ==
    [][lastOp'.op = "set_angles" =>
          /\ lastOp'.ok <=> lastOp'.len = Need
          /\ ~lastOp'.ok =>
                /\ evs' = evs
                /\ \A e \in DOMAIN evs :
                      total_cost(graph', evs'[e]).ret = total_cost(graph, evs[e]).ret]_vars

\* A set_angles that failed on an evaluator whose angles and costs had been set.
C2_Witness ==
    /\ lastOp.op = "set_angles" /\ ~lastOp.ok
    /\ lastAngles[lastOp.ev] # None
    /\ ~AllZero(evs[lastOp.ev])
    /\ \E k \in EdgeKeys : evs[lastOp.ev].edge_costs.val[k] # Zero

(***************************************************************************)
(* C4.  With every alpha, beta and gamma 0.0, total_cost() stores 0.5 as   *)
(* the cost of every edge and returns 0.5 * num_edges, on every graph      *)
(* built from pairs of distinct nodes.                                     *)
(***************************************************************************)
C4_ZeroAnglesCostHalfPerEdge ==
    (SimpleInput /\ lastOp.op = "total_cost" /\ AllZero(evs[lastOp.ev])) =>
        /\ lastOp.ok
        /\ \A k \in EdgeKeys : evs[lastOp.ev].edge_costs.val[k] = Half
        /\ lastOp.ret = Half * graph.num_edges

(***************************************************************************)
(* C6.  On a triangle-free graph total_cost() calls term3 for no edge, and *)
(* for every edge and every angle assignment term3, if evaluated, is 0, so *)
(* that the edge costs and the total are those of a total_cost() that      *)
(* evaluates term3 for every edge.                                         *)
(***************************************************************************)
C6_Term3VanishesWithoutTriangles ==
    TriangleFree =>
        /\ lastOp.op = "total_cost" => lastOp.calls = {}
        /\ \A e \in DOMAIN evs :
              /\ \A k \in EdgeKeys :
                    term3(graph, evs[e], k).ok /\ term3(graph, evs[e], k).val = Zero
              /\ LET forced == total_cost_loop(graph, evs[e], 1, {}, TRUE)
                     plain == total_cost(graph, evs[e])
                 IN  /\ forced.ok /\ plain.ok
                     /\ forced.ret = plain.ret
                     /\ forced.ev.edge_costs = plain.ev.edge_costs

\* total_cost() has run on the path 0-1-2 with angles that are not all zero.
C6_Witness ==
    /\ TriangleFree
    /\ input.n = 3 /\ input.pairs = {<<0, 1>>, <<1, 2>>}
    /\ lastOp.op = "total_cost" /\ lastOp.ok
    /\ lastAngles[lastOp.ev] = Some(DistinctAngles(graph.num_nodes, Need))

StoredMatchesQueries(g) ==
    /\ \A n \in KeySet(g.nodes) :
          g.nodes.val[n].neighbours = Some(neighbours(g, n).val)
    /\ \A k \in KeySet(g.edges) :
          /\ g.edges.val[k].triangle_nodes = Some(triangle_nodes(g, k))
          /\ g.edges.val[k].in_triangle = Some(in_triangle(g, k))

(***************************************************************************)
(* C8.  No set_angles or total_cost call on any evaluator changes the      *)
(* graph: its node and edge keys, the neighbour set of each node and       *)
(* triangle_nodes and in_triangle of each edge stay as construction left   *)
(* them, and neighbours, triangle_nodes and in_triangle return afterwards  *)
(* what the graph holds.                                                   *)
(***************************************************************************)
C8_GraphNeverChanges ==
    [][graph' = graph /\ StoredMatchesQueries(graph')]_vars

\* Both evaluators have run total_cost() on a graph with a triangle; the
\* second has just returned.
C8_Witness ==
    /\ lastOp.op = "total_cost" /\ lastOp.ok /\ lastOp.ev = 2
    /\ \E k \in EdgeKeys : triangle_nodes(graph, k) # {}
    /\ \A e \in DOMAIN evs : \E k \in EdgeKeys : evs[e].edge_costs.val[k] # Zero

(***************************************************************************)
(* C9.  In every state the alphas, betas and gammas of an evaluator are    *)
(* those of the vector of its last successful set_angles (zeros if none),  *)
(* whatever total_cost() calls came after; what total_cost() returns and   *)
(* stores in edge_costs is what a new evaluator on the same graph, given   *)
(* that vector, returns and stores; and two evaluators whose last vectors  *)
(* are equal have the same total_cost().                                   *)
(***************************************************************************)
C9_TotalCostDependsOnLastAnglesOnly ==
    built =>
        /\ \A e \in DOMAIN evs :
              LET set == set_angles(graph, XQAOA(graph), CurrentAngles(e)).ev
              IN  /\ evs[e].alphas = set.alphas
                  /\ evs[e].betas = set.betas
                  /\ evs[e].gammas = set.gammas
        /\ lastOp.op = "total_cost" =>
              LET f == FreshRun(graph, CurrentAngles(lastOp.ev))
              IN  /\ lastOp.ok = f.ok
                  /\ lastOp.ret = f.ret
                  /\ evs[lastOp.ev].edge_costs = f.ev.edge_costs
        /\ \A e1 \in DOMAIN evs : \A e2 \in DOMAIN evs :
              (e1 < e2 /\ CurrentAngles(e1) = CurrentAngles(e2)) =>
                  LET r1 == total_cost(graph, evs[e1])
                      r2 == total_cost(graph, evs[e2])
                  IN  r1.ok = r2.ok /\ r1.ret = r2.ret

\* Evaluator 2 has run total_cost() with the vector evaluator 1 was given
\* last, after another vector of its own; evaluator 1 ran total_cost() before
\* its last set_angles, so that its edge_costs are those of older angles.
C9_Witness ==
    /\ lastOp.op = "total_cost" /\ lastOp.ok /\ lastOp.ev = 2
    /\ lastAngles[1] = lastAngles[2]
    /\ lastAngles[2] = Some(Term2Angles(graph.num_nodes, Need))
    /\ evs[1].edge_costs # evs[2].edge_costs
    /\ \E k \in EdgeKeys : evs[1].edge_costs.val[k] # Zero
    /\ lastOp.ret # Half * Len(graph.edges.keys)
====
